---- MODULE Spec2Model ----
(***************************************************************************)
(* Model of the two MapBiomas batch scripts:                               *)
(*   CIC_2025/scripts/mapbiomas_csv.py                      (CSV script)    *)
(*   CIC_2025/scripts/mapbiomas_mudancas_grafico_animado.py (chart script)  *)
(* A run is one script executed once.  When the year loop looks at a       *)
(* year's path the file system answers with no file, a file the raster     *)
(* library raises on, or a single-band raster of integer class codes.      *)
(*                                                                         *)
(* Floating-point numbers are modelled as exact rationals [num, den]       *)
(* (den > 0); rounding is not modelled.  The ties of an unstable           *)
(* sort_values come out in any order.  top_n and frames_per_year are the   *)
(* parameters TopN and FramesPerYear.  The notebook display on line 321 of *)
(* the chart script redraws the frames already drawn and is left out.      *)
(***************************************************************************)
EXTENDS Integers, Sequences, FiniteSets, TLC

VARIABLES
    script,             \* which of the two scripts this run executes
    legend_data,        \* result of load_legend
    files,              \* what the run has found on disk: year -> file, for the years looked at
    pc,                 \* position of the script
    i,                  \* 1-based position of the year loop in `years`
    dataframes,         \* all_dataframes (CSV script) / dataframes (chart script)
    log,                \* console output, one notice per print that matters
    csv_file,           \* the CSV output file: NoFile or its data rows
    unified_df,         \* result of create_unified_dataframe
    all_years,          \* frame times built by create_smooth_animation
    interpolated_data,  \* one table per frame
    bars                \* what the axes show: the bars update() drew last

vars == <<script, legend_data, files, pc, i, dataframes, log, csv_file,
          unified_df, all_years, interpolated_data, bars>>

----------------------------------------------------------------------------
(* Bounds of the model *)

NumYears == 2

NumPixels == 3

MaxClass == 2

TopN == 1

FramesPerYear == 3

(* Program constants *)

FirstYear == 1985

NoData == 0

----------------------------------------------------------------------------
(* Generic helpers *)

RECURSIVE SumSeq(_)
SumSeq(s) == IF s = <<>> THEN 0 ELSE Head(s) + SumSeq(Tail(s))

RECURSIVE SortedSeqOfSet(_)
SortedSeqOfSet(S) ==
    IF S = {} THEN <<>>
    ELSE LET m == CHOOSE x \in S : \A y \in S : x <= y
         IN  <<m>> \o SortedSeqOfSet(S \ {m})

RECURSIVE Compress(_, _)
\* arr[mask]: the elements of arr at the positions where mask is TRUE
Compress(arr, mask) ==
    IF arr = <<>> THEN <<>>
    ELSE (IF Head(mask) THEN <<Head(arr)>> ELSE <<>>)
         \o Compress(Tail(arr), Tail(mask))

RECURSIVE Concat(_)
Concat(ss) == IF ss = <<>> THEN <<>> ELSE Head(ss) \o Concat(Tail(ss))

Head_n(s, n) == SubSeq(s, 1, IF Len(s) < n THEN Len(s) ELSE n)

\* every arrangement of rows in which ge holds between neighbours (ge[a, b]:
\* row a may stand before row b): the results an unstable sort may return
SortedOrders(rows, ge) ==
    {[k \in 1..Len(rows) |-> rows[p[k]]] : p \in
        {q \in Permutations(1..Len(rows)) :
            \A k \in 1..(Len(rows) - 1) : ge[q[k], q[k + 1]]}}

(* Exact rationals standing for Python floats *)

Rat(n, d) == [num |-> n, den |-> d]

RatEq(a, b) == a.num * b.den = b.num * a.den

RatLE(a, b) == a.num * b.den <= b.num * a.den

RatAdd(a, b) == Rat(a.num * b.den + b.num * a.den, a.den * b.den)

RatSub(a, b) == Rat(a.num * b.den - b.num * a.den, a.den * b.den)

RatMul(a, b) == Rat(a.num * b.num, a.den * b.den)

RatFloor(a) == a.num \div a.den

----------------------------------------------------------------------------
(* The environment *)

\* a path that os.path.exists denies
Missing == [exists |-> FALSE, readable |-> FALSE, band |-> <<>>]

\* a file that rasterio.open or src.read raises on
Unreadable == [exists |-> TRUE, readable |-> FALSE, band |-> <<>>]

RasterFile(raster) == [exists |-> TRUE, readable |-> TRUE, band |-> raster]

NoFile == [written |-> FALSE, rows |-> <<>>]

CsvFile(rows) == [written |-> TRUE, rows |-> rows]

years == [k \in 1..NumYears |-> FirstYear + k - 1]

YearSet == {years[k] : k \in 1..NumYears}

\* a band of NumPixels class codes; np.unique flattens and sorts the band, so
\* rasters are drawn up to the order of their pixels
Rasters ==
    {r \in [1..NumPixels -> 0..MaxClass] :
        \A k \in 1..(NumPixels - 1) : r[k] <= r[k + 1]}

\* the file system answers for a year when the year loop looks at its path
Found(year, file) == [y \in DOMAIN files \cup {year} |->
                         IF y = year THEN file ELSE files[y]]

DigitStr == <<"0", "1", "2", "3", "4", "5", "6", "7", "8", "9">>

\* str(code) for a one-digit class code
Str(code) == DigitStr[code + 1]

\* the legend knows class 1 only: both branches of the lookup are taken
Legends ==
    {[k \in {"1"} |-> [PT |-> <<"Forest">>, HEX_COL |-> "#006400"]]}

----------------------------------------------------------------------------
(* Raster Tabulator, shared by both scripts *)

np_unique(raster_data) ==
    LET unique == SortedSeqOfSet({raster_data[k] : k \in DOMAIN raster_data})
    IN  [unique |-> unique,
         counts |-> [k \in 1..Len(unique) |->
             Cardinality({p \in DOMAIN raster_data : raster_data[p] = unique[k]})]]

NoDataMask_keep_all(unique) == [k \in 1..Len(unique) |-> TRUE]

NoDataMask(unique) == [k \in 1..Len(unique) |-> unique[k] # NoData]

Percent_no_scale(count, total_pixels) == Rat(count, total_pixels)

Percent(count, total_pixels) == Rat(count * 100, total_pixels)

GE_num_px(r1, r2) == r1.num_px >= r2.num_px

process_raster_for_csv(raster_data, year) ==
    LET u == np_unique(raster_data)
        mask == NoDataMask(u.unique)
        unique_filtered == Compress(u.unique, mask)
        counts_filtered == Compress(u.counts, mask)
        total_pixels == SumSeq(counts_filtered)
        df == [k \in 1..Len(unique_filtered) |->
                  [ano |-> year,
                   classe |-> unique_filtered[k],
                   num_px |-> counts_filtered[k],
                   porc_rel |-> Percent(counts_filtered[k], total_pixels)]]
    IN  SortedOrders(df, [a, b \in 1..Len(df) |-> GE_num_px(df[a], df[b])])

----------------------------------------------------------------------------
(* CSV script: year loop and aggregation step *)

Notice(kind, year) == <<kind, year>>

CsvSkipMissing_stop ==
    /\ script = "csv" /\ pc = "loop" /\ i <= NumYears
    /\ files' = Found(years[i], Missing)
    /\ log' = Append(log, Notice("missing", years[i]))
    /\ i' = NumYears + 1
    /\ UNCHANGED <<script, legend_data, pc, dataframes, csv_file,
                   unified_df, all_years, interpolated_data, bars>>

CsvSkipMissing ==
    /\ script = "csv" /\ pc = "loop" /\ i <= NumYears
    /\ files' = Found(years[i], Missing)
    /\ log' = Append(log, Notice("missing", years[i]))
    /\ i' = i + 1
    /\ UNCHANGED <<script, legend_data, pc, dataframes, csv_file,
                   unified_df, all_years, interpolated_data, bars>>

CsvProcessYear ==
    /\ script = "csv" /\ pc = "loop" /\ i <= NumYears
    /\ \E raster_data \in Rasters :
           /\ files' = Found(years[i], RasterFile(raster_data))
           /\ \E df_ano \in process_raster_for_csv(raster_data, years[i]) :
                  dataframes' = Append(dataframes, df_ano)
    /\ log' = log \o <<Notice("processing", years[i]),
                       Notice("processed", years[i])>>
    /\ i' = i + 1
    /\ UNCHANGED <<script, legend_data, pc, csv_file,
                   unified_df, all_years, interpolated_data, bars>>

CsvYearError ==
    /\ script = "csv" /\ pc = "loop" /\ i <= NumYears
    /\ files' = Found(years[i], Unreadable)
    /\ log' = log \o <<Notice("processing", years[i]),
                       Notice("error", years[i])>>
    /\ i' = i + 1
    /\ UNCHANGED <<script, legend_data, pc, dataframes, csv_file,
                   unified_df, all_years, interpolated_data, bars>>

LE_ano_num_px_asc(r1, r2) ==
    \/ r1.ano < r2.ano
    \/ r1.ano = r2.ano /\ r1.num_px <= r2.num_px

\* sort_values(['ano', 'num_px'], ascending=[True, False])
LE_ano_num_px(r1, r2) ==
    \/ r1.ano < r2.ano
    \/ r1.ano = r2.ano /\ r1.num_px >= r2.num_px

RECURSIVE InsertSorted(_, _)
\* insertion after every row that is not greater: the stable order lexsort gives
InsertSorted(r, s) ==
    IF s = <<>> THEN <<r>>
    ELSE IF LE_ano_num_px(Head(s), r) THEN <<Head(s)>> \o InsertSorted(r, Tail(s))
    ELSE <<r>> \o s

RECURSIVE sort_values_ano_num_px(_)
sort_values_ano_num_px(s) ==
    IF s = <<>> THEN <<>>
    ELSE InsertSorted(s[Len(s)], sort_values_ano_num_px(SubSeq(s, 1, Len(s) - 1)))

CsvWrite ==
    /\ script = "csv" /\ pc = "loop" /\ i > NumYears
    /\ dataframes # <<>>
    /\ csv_file' = CsvFile(sort_values_ano_num_px(Concat(dataframes)))
    /\ log' = Append(log, Notice("saved", 0))
    /\ pc' = "done"
    /\ UNCHANGED <<script, legend_data, files, i, dataframes,
                   unified_df, all_years, interpolated_data, bars>>

CsvNoData ==
    /\ script = "csv" /\ pc = "loop" /\ i > NumYears
    /\ dataframes = <<>>
    /\ log' = Append(log, Notice("nodata", 0))
    /\ pc' = "done"
    /\ UNCHANGED <<script, legend_data, files, i, dataframes, csv_file,
                   unified_df, all_years, interpolated_data, bars>>

----------------------------------------------------------------------------
(* Chart script: tabulator with legend fields *)

GE_cont_px(r1, r2) == r1.cont_px >= r2.cont_px

read_raster_and_get_value_counts(raster_data, legend) ==
    LET u == np_unique(raster_data)
        mask == NoDataMask(u.unique)
        unique_filtered == Compress(u.unique, mask)
        counts_filtered == Compress(u.counts, mask)
        total_pixels == SumSeq(counts_filtered)
        InLegend(code) == Str(code) \in DOMAIN legend
        df == [k \in 1..Len(unique_filtered) |->
                  LET code == unique_filtered[k] IN
                  [classe |-> code,
                   cont_px |-> counts_filtered[k],
                   porcent |-> Percent(counts_filtered[k], total_pixels),
                   nome_pt |-> IF InLegend(code) THEN legend[Str(code)].PT
                               ELSE <<"Classe", Str(code), "(nao encontrada)">>,
                   cor_hex |-> IF InLegend(code) THEN legend[Str(code)].HEX_COL
                               ELSE "#808080"]]
    IN  SortedOrders(df, [a, b \in 1..Len(df) |-> GE_cont_px(df[a], df[b])])

(* Chart script: create_unified_dataframe *)

Classes(df) == {df[k].classe : k \in 1..Len(df)}

\* df[df['classe'] == classe].iloc[0]
RowOf(df, classe) == df[CHOOSE k \in 1..Len(df) :
                        /\ df[k].classe = classe
                        /\ \A m \in 1..(k - 1) : df[m].classe # classe]

\* top_classes.index(classe)
IndexOf(list, x) == (CHOOSE k \in 1..Len(list) :
                        /\ list[k] = x
                        /\ \A m \in 1..(k - 1) : list[m] # x) - 1

Min(a, b) == IF a < b THEN a ELSE b

\* the years that zip(years, dataframes) pairs with the tables, in order
ZipYears_by_position(year_list, dfs) ==
    [k \in 1..Min(Len(year_list), Len(dfs)) |-> year_list[k]]

all_classes(dfs, top_n) ==
    UNION {Classes(Head_n(dfs[k], top_n)) : k \in 1..Len(dfs)}

UnifiedRow(year, df, classe, dfs, top_n) ==
    LET top_classes == [k \in 1..Len(Head_n(df, top_n)) |-> df[k].classe]
        InTop == \E k \in 1..Len(top_classes) : top_classes[k] = classe
        Others == {k \in 1..Len(dfs) : classe \in Classes(dfs[k])}
    IN  IF classe \in Classes(df)
        THEN LET row == RowOf(df, classe) IN
             [year |-> year, classe |-> classe, porcent |-> row.porcent,
              nome_pt |-> row.nome_pt, cor_hex |-> row.cor_hex,
              rank |-> IF InTop THEN IndexOf(top_classes, classe) + 1
                       ELSE top_n + 1]
        ELSE IF Others # {}
        THEN LET other_row ==
                     RowOf(dfs[CHOOSE k \in Others : \A m \in Others : k <= m],
                           classe) IN
             [year |-> year, classe |-> classe, porcent |-> Rat(0, 1),
              nome_pt |-> other_row.nome_pt, cor_hex |-> other_row.cor_hex,
              rank |-> top_n + 1]
        ELSE [year |-> year, classe |-> classe, porcent |-> Rat(0, 1),
              nome_pt |-> <<"Classe", Str(classe)>>, cor_hex |-> "#808080",
              rank |-> top_n + 1]

\* all_classes is a set of small integers, iterated here in ascending order
create_unified_dataframe(dfs, year_list, top_n) ==
    LET classes == SortedSeqOfSet(all_classes(dfs, top_n))
        zipped == ZipYears_by_position(year_list, dfs)
    IN  Concat([k \in 1..Len(zipped) |->
                   [c \in 1..Len(classes) |->
                       UnifiedRow(zipped[k], dfs[k], classes[c], dfs, top_n)]])

(* Chart script: create_smooth_animation *)

build_all_years(year_list, frames_per_year) ==
    Concat([k \in 1..(Len(year_list) - 1) |->
               <<Rat(year_list[k], 1)>> \o
               [j \in 1..(frames_per_year - 1) |->
                   RatAdd(Rat(year_list[k], 1),
                          RatMul(Rat(j, 1), Rat(1, frames_per_year)))]])
    \o <<Rat(year_list[Len(year_list)], 1)>>

\* unified_df[unified_df['year'] == year]
RowsOfYear(df, year) ==
    SelectSeq(df, LAMBDA r : RatEq(Rat(r.year, 1), year))

Interpolate_swapped(prev_val, next_val, alpha) ==
    RatAdd(RatMul(prev_val, alpha), RatMul(next_val, RatSub(Rat(1, 1), alpha)))

Interpolate(prev_val, next_val, alpha) ==
    RatAdd(RatMul(prev_val, RatSub(Rat(1, 1), alpha)), RatMul(next_val, alpha))

FrameData(year, year_list, df) ==
    IF \E k \in 1..Len(year_list) : RatEq(year, Rat(year_list[k], 1))
    THEN RowsOfYear(df, year)
    ELSE LET year_prev == RatFloor(year)
             year_next == year_prev + 1
             data_prev == RowsOfYear(df, Rat(year_prev, 1))
             data_next == RowsOfYear(df, Rat(year_next, 1))
             alpha == RatSub(year, Rat(year_prev, 1))
         IN  [k \in 1..Len(data_prev) |->
                 IF data_prev[k].classe \in Classes(data_next)
                 THEN [data_prev[k] EXCEPT !.porcent =
                          Interpolate(data_prev[k].porcent,
                                      RowOf(data_next, data_prev[k].classe).porcent,
                                      alpha)]
                 ELSE data_prev[k]]

GE_porcent(r1, r2) == RatLE(r2.porcent, r1.porcent)

\* what update(frame) draws: the title year and the bars, left to right
update(year_data, year, top_n) ==
    {[title |-> RatFloor(year), rows |-> Head_n(sorted, top_n)] :
        sorted \in SortedOrders(year_data,
            [a, b \in 1..Len(year_data) |-> GE_porcent(year_data[a], year_data[b])])}

(* Chart script: year loop, unifier call and animation *)

ChartSkipMissing ==
    /\ script = "chart" /\ pc = "loop" /\ i <= NumYears
    /\ files' = Found(years[i], Missing)
    /\ log' = Append(log, Notice("missing", years[i]))
    /\ i' = i + 1
    /\ UNCHANGED <<script, legend_data, pc, dataframes, csv_file,
                   unified_df, all_years, interpolated_data, bars>>

ChartProcessYear ==
    /\ script = "chart" /\ pc = "loop" /\ i <= NumYears
    /\ \E raster_data \in Rasters :
           /\ files' = Found(years[i], RasterFile(raster_data))
           /\ \E df_resultado \in
                  read_raster_and_get_value_counts(raster_data, legend_data) :
                  dataframes' = Append(dataframes, df_resultado)
    /\ log' = log \o <<Notice("processing", years[i]),
                       Notice("processed", years[i])>>
    /\ i' = i + 1
    /\ UNCHANGED <<script, legend_data, pc, csv_file,
                   unified_df, all_years, interpolated_data, bars>>

\* no try/except around the call: the exception ends the script
ChartYearError ==
    /\ script = "chart" /\ pc = "loop" /\ i <= NumYears
    /\ files' = Found(years[i], Unreadable)
    /\ log' = log \o <<Notice("processing", years[i]),
                       Notice("traceback", years[i])>>
    /\ pc' = "aborted"
    /\ UNCHANGED <<script, legend_data, i, dataframes, csv_file,
                   unified_df, all_years, interpolated_data, bars>>

ChartUnify ==
    /\ script = "chart" /\ pc = "loop" /\ i > NumYears
    /\ unified_df' = create_unified_dataframe(dataframes, years, TopN)
    /\ pc' = "animate"
    /\ UNCHANGED <<script, legend_data, files, i, dataframes, log, csv_file,
                   all_years, interpolated_data, bars>>

\* create_smooth_animation with an output path: the frame tables are built and
\* ani.save draws every frame in turn, each on cleared axes
ChartAnimate ==
    /\ script = "chart" /\ pc = "animate"
    /\ unified_df # <<>>
    /\ all_years' = build_all_years(years, FramesPerYear)
    /\ interpolated_data' =
           [f \in 1..Len(all_years') |-> FrameData(all_years'[f], years, unified_df)]
    /\ bars' \in update(interpolated_data'[Len(all_years')],
                        all_years'[Len(all_years')], TopN)
    /\ pc' = "done"
    /\ UNCHANGED <<script, legend_data, files, i, dataframes, log, csv_file,
                   unified_df>>

\* an empty unified table has no 'year' column: KeyError at the first frame
ChartAnimateKeyError ==
    /\ script = "chart" /\ pc = "animate"
    /\ unified_df = <<>>
    /\ log' = Append(log, Notice("traceback", 0))
    /\ pc' = "aborted"
    /\ UNCHANGED <<script, legend_data, files, i, dataframes, csv_file,
                   unified_df, all_years, interpolated_data, bars>>

----------------------------------------------------------------------------
(* The run *)

Init ==
    /\ script \in {"csv", "chart"}
    /\ legend_data \in Legends
    /\ files = <<>>
    /\ pc = "loop"
    /\ i = 1
    /\ dataframes = <<>>
    /\ log = <<>>
    /\ csv_file = NoFile
    /\ unified_df = <<>>
    /\ all_years = <<>>
    /\ interpolated_data = <<>>
    /\ bars = [title |-> 0, rows |-> <<>>]

Next ==
    \/ CsvSkipMissing
    \/ CsvProcessYear
    \/ CsvYearError
    \/ CsvWrite
    \/ CsvNoData
    \/ ChartSkipMissing
    \/ ChartProcessYear
    \/ ChartYearError
    \/ ChartUnify
    \/ ChartAnimate
    \/ ChartAnimateKeyError

Spec == Init /\ [][Next]_vars

----------------------------------------------------------------------------
(* Vocabulary of the properties, read off the files and the console *)

PixelCount(band, c) == Cardinality({p \in DOMAIN band : band[p] = c})

ValidPixels(band) == Cardinality({p \in DOMAIN band : band[p] # 0})

Noted(kind, year) == \E k \in 1..Len(log) : log[k] = <<kind, year>>

\* the years whose table was appended, in the order of the appends
ProcessedYears ==
    LET done == SelectSeq(log, LAMBDA n : n[1] = "processed")
    IN  [k \in 1..Len(done) |-> done[k][2]]

ProcessedSet == {ProcessedYears[k] : k \in 1..Len(ProcessedYears)}

\* the table tabulated from the file of a processed year
TableOf(year) ==
    dataframes[CHOOSE k \in 1..Len(ProcessedYears) : ProcessedYears[k] = year]

RowsOf(table) == {table[k] : k \in 1..Len(table)}

PxOf(r) == IF script = "csv" THEN r.num_px ELSE r.cont_px

PctOf(r) == IF script = "csv" THEN r.porc_rel ELSE r.porcent

RECURSIVE RatSum(_)
RatSum(s) == IF s = <<>> THEN Rat(0, 1) ELSE RatAdd(Head(s), RatSum(Tail(s)))

LoopPassed(year) == \E k \in 1..NumYears : years[k] = year /\ k < i

Unified == script = "chart" /\ i > NumYears /\ pc # "loop"

Animated == script = "chart" /\ pc = "done"

----------------------------------------------------------------------------
(* C1: class code 0 never appears as a classCode in a YearTable of either  *)
(* tabulator, in a CSV row, in a UnifiedTable row, in a frame table or in  *)
(* a bar of an animation frame.                                            *)
C1_NoClassZero ==
    /\ \A k \in 1..Len(dataframes) : \A r \in RowsOf(dataframes[k]) : r.classe # 0
    /\ \A r \in RowsOf(csv_file.rows) : r.classe # 0
    /\ \A r \in RowsOf(unified_df) : r.classe # 0
    /\ \A f \in 1..Len(interpolated_data) :
           \A r \in RowsOf(interpolated_data[f]) : r.classe # 0
    /\ \A r \in RowsOf(bars.rows) : r.classe # 0
    /\ \A f \in 1..Len(interpolated_data) :
           \A drawn \in update(interpolated_data[f], all_years[f], TopN) :
               \A r \in RowsOf(drawn.rows) : r.classe # 0

C1_Witness ==
    /\ script = "chart" /\ pc = "done"
    /\ bars.rows # <<>>
    /\ \E y \in ProcessedSet :
           /\ PixelCount(files[y].band, 0) > 0
           /\ ValidPixels(files[y].band) > 0

(* C2: for a YearTable of a raster with at least one non-zero pixel, the   *)
(* pixel counts sum to the number of non-zero pixels, every percent is     *)
(* 100 * pixelCount / totalValidPixels, and the percents sum to 100.       *)
C2_PercentOfValid ==
    LET processed == ProcessedYears IN
    \A k \in 1..Len(dataframes) :
        LET band == files[processed[k]].band
            table == dataframes[k]
            total == ValidPixels(band)
        IN  total > 0 =>
            /\ SumSeq([m \in 1..Len(table) |-> PxOf(table[m])]) = total
            /\ \A m \in 1..Len(table) :
                   /\ PctOf(table[m]).den > 0
                   /\ RatEq(PctOf(table[m]), Rat(100 * PxOf(table[m]), total))
            /\ RatEq(RatSum([m \in 1..Len(table) |-> PctOf(table[m])]), Rat(100, 1))

C2_Witness ==
    \E k \in 1..Len(dataframes) :
        /\ Len(dataframes[k]) >= 2
        /\ PixelCount(files[ProcessedYears[k]].band, 0) > 0

(* C3: in the CSV script, a year whose raster file is missing has a skip   *)
(* notice, no error and no row in the output, and every year whose file    *)
(* exists is still tabulated: the rows of a readable raster are written.   *)
C3_MissingYearSkipped ==
    (script = "csv" /\ pc = "done") =>
        \A y \in YearSet :
            /\ y \in DOMAIN files
            /\ ~ files[y].exists =>
                   /\ Noted("missing", y)
                   /\ ~ Noted("error", y)
                   /\ \A r \in RowsOf(csv_file.rows) : r.ano # y
            /\ files[y].exists => Noted("processing", y)
            /\ (files[y].exists /\ files[y].readable) =>
                   /\ csv_file.written
                   /\ \A c \in 1..MaxClass :
                          PixelCount(files[y].band, c) > 0 =>
                              \E r \in RowsOf(csv_file.rows) :
                                  /\ r.ano = y /\ r.classe = c
                                  /\ r.num_px = PixelCount(files[y].band, c)

C3_Witness ==
    /\ script = "csv" /\ pc = "done"
    /\ \E y1, y2 \in YearSet :
           /\ y1 < y2
           /\ ~ files[y1].exists
           /\ files[y2].readable
           /\ \E r \in RowsOf(csv_file.rows) : r.ano = y2

(* C4: a year whose raster has no non-zero pixel fails its tabulation with *)
(* an error and is not appended to the list of YearTables.                 *)
C4_EmptyRasterIsError ==
    \A y \in DOMAIN files :
        (LoopPassed(y) /\ files[y].readable /\ ValidPixels(files[y].band) = 0) =>
            /\ ~ Noted("processed", y)
            /\ (Noted("error", y) \/ Noted("traceback", y))

(* C5: in the CSV script a file is written only when at least one data row *)
(* exists; when no year produced data the run reports it and writes none.  *)
C5_NoEmptyCsv ==
    (script = "csv" /\ pc = "done") =>
        /\ csv_file.written => Len(csv_file.rows) >= 1
        /\ (\A k \in 1..Len(dataframes) : dataframes[k] = <<>>) =>
               /\ ~ csv_file.written
               /\ Noted("nodata", 0)

(* C6: in both scripts a failure while tabulating one year never aborts    *)
(* the run: the year loop goes on to the remaining years and the run       *)
(* reaches the aggregation or unification step.                            *)
C6_YearFailureNeverAborts ==
    /\ pc = "aborted" => i > NumYears
    /\ \A y \in DOMAIN files :
           (files[y].exists /\ ~ files[y].readable /\ Noted("processing", y)) =>
               LoopPassed(y)

(* C7: the rows of the written CSV are ordered by ano ascending and, for   *)
(* equal ano, by num_px descending, and are, as a multiset, the rows of    *)
(* the YearTables of the processed years.                                  *)
C7_CsvSorted ==
    csv_file.written =>
        LET rows == csv_file.rows
            source == Concat(dataframes)
            Occurs(s, r) == Cardinality({k \in 1..Len(s) : s[k] = r})
        IN  /\ \A k \in 1..(Len(rows) - 1) :
                   \/ rows[k].ano < rows[k + 1].ano
                   \/ /\ rows[k].ano = rows[k + 1].ano
                      /\ rows[k].num_px >= rows[k + 1].num_px
            /\ Len(rows) = Len(source)
            /\ \A r \in RowsOf(rows) \cup RowsOf(source) :
                   Occurs(rows, r) = Occurs(source, r)

C7_Witness ==
    /\ csv_file.written
    /\ \E a, b \in 1..Len(csv_file.rows) :
           /\ a < b
           /\ csv_file.rows[a].ano = csv_file.rows[b].ano
           /\ csv_file.rows[a].num_px > csv_file.rows[b].num_px
    /\ \E a, b \in 1..Len(csv_file.rows) :
           csv_file.rows[a].ano < csv_file.rows[b].ano

\* union over the processed years of the classes of the year's first TopN rows
ClassUnion ==
    UNION {{dataframes[k][m].classe : m \in 1..Min(TopN, Len(dataframes[k]))} :
              k \in 1..Len(dataframes)}

(* C8: every processed year Y and every class C of the class union has    *)
(* exactly one row (Y, C) in the UnifiedTable, no row has a class outside  *)
(* the union, and no row carries the generic placeholder name.             *)
C8_OneRowPerYearAndClass ==
    Unified =>
        /\ \A y \in ProcessedSet : \A c \in ClassUnion :
               Cardinality({k \in 1..Len(unified_df) :
                   unified_df[k].year = y /\ unified_df[k].classe = c}) = 1
        /\ \A r \in RowsOf(unified_df) :
               /\ r.classe \in ClassUnion
               /\ r.nome_pt # <<"Classe", Str(r.classe)>>

(* C9: every UnifiedTable row labelled with year Y holds the data of the   *)
(* raster of Y: the percent of its class there, with the class's position  *)
(* in Y's first TopN rows as rank, or percent 0 and rank TopN + 1 when the *)
(* class is absent; the labelling years are the tabulated years.           *)
C9_RowsHoldOwnYear ==
    Unified =>
        /\ ClassUnion # {} => {r.year : r \in RowsOf(unified_df)} = ProcessedSet
        /\ \A r \in RowsOf(unified_df) :
               /\ r.year \in ProcessedSet
               /\ LET band == files[r.year].band
                      table == TableOf(r.year)
                      pos == {k \in 1..Len(table) : table[k].classe = r.classe}
                  IN  IF PixelCount(band, r.classe) > 0
                      THEN /\ RatEq(r.porcent,
                                    Rat(100 * PixelCount(band, r.classe),
                                        ValidPixels(band)))
                           /\ \A k \in pos :
                                  r.rank = IF k <= TopN THEN k ELSE TopN + 1
                      ELSE /\ RatEq(r.porcent, Rat(0, 1))
                           /\ r.rank = TopN + 1

\* the percent values the UnifiedTable holds for a class in a year
UnifiedValues(year, c) ==
    {r.porcent : r \in {u \in RowsOf(unified_df) : u.year = year /\ u.classe = c}}

RatLT(a, b) == a.num * b.den < b.num * a.den

====
